---------------------------- MODULE Spec2Model ----------------------------
(***************************************************************************)
(* grimquill: a higher-order Markov chain text generator.                  *)
(*                                                                         *)
(* A JavaScript string is a sequence of one-character strings, so that     *)
(* split, join, trim and the tokenizer's regular expression are computed   *)
(* character by character.  A JavaScript Map is a sequence of <<key,       *)
(* value>> pairs in insertion order (Map iterates in insertion order).     *)
(***************************************************************************)
EXTENDS Integers, Sequences, FiniteSets, TLC

VARIABLES
  order, tokenType, stopTokens, model, \* the fields of the MarkovModel `markov`
  trains,                              \* the train calls made on it so far
  pc,                                  \* where the generate call stands
  options,                             \* the argument of the generate call
  tokens, currentLength,               \* the locals of generate
  tokenized, samples, iterations,      \* what the call has done so far
  outcome,                             \* why the loop ended, or the error thrown
  text,                                \* the value generate returns
  file,                                \* the JSON data of the model file
  loaded,                              \* what the last MarkovModel.load did
  largeText, chunks, results, merged   \* trainParallel: its text, the chunks,
                                       \* the workers' results, those merged

genVars ==
  <<pc, options, tokens, currentLength, tokenized, samples, iterations, outcome, text>>

ioVars == <<file, loaded>>

parVars == <<largeText, chunks, results, merged>>

vars == <<order, tokenType, stopTokens, model, trains, genVars, ioVars, parVars>>

(***************************************************************************)
(* Bounds of the model.                                                    *)
(***************************************************************************)
MaxOrder == 2
MaxTrains == 1
MaxLength == 3
DrawDen == 4

(***************************************************************************)
(* JavaScript values whose type the code tests or that may be absent: a    *)
(* record with its type, and its value where it has one.  A string value   *)
(* is a sequence of characters, a number n/d is the pair <<n, d>>, d > 0.  *)
(***************************************************************************)
JUndefined == [type |-> "undefined"]

JNull == [type |-> "null"]

JNumber(n) == [type |-> "number", val |-> n]

JString(s) == [type |-> "string", val |-> s]

JArray(a) == [type |-> "array", val |-> a]

\* ToBoolean, as  ||  and  if (...)  apply it
Truthy(v) ==
  CASE v.type \in {"undefined", "null"} -> FALSE
    [] v.type = "number" -> v.val # 0
    [] v.type = "string" -> Len(v.val) # 0
    [] OTHER -> TRUE

\* a || b
OrElse(a, b) == IF Truthy(a) THEN a ELSE b

\* a destructuring default: { a = b } = options
Default(a, b) == IF a.type = "undefined" THEN b ELSE a

\* comparisons of the numbers n/d
Less(x, y) == x[1] * y[2] < y[1] * x[2]

LessEq(x, y) == x[1] * y[2] <= y[1] * x[2]

(***************************************************************************)
(* Strings.                                                                *)
(***************************************************************************)
WordChars == {"a", "b", "c", "A", "B", "C", "0", "1", "_"}

ApostropheChars == {"'"}

PunctuationChars ==
  {".", ",", "!", "?", ";", ":", "\"", "(", ")", "[", "]", "{", "}"}

WhitespaceChars == {" ", "\n", "\t"}

RECURSIVE Concat(_)
Concat(ss) ==
  IF ss = <<>> THEN <<>> ELSE Head(ss) \o Concat(Tail(ss))

\* Array.prototype.join(sep)
RECURSIVE Join(_, _)
Join(ts, sep) ==
  IF ts = <<>> THEN <<>>
  ELSE IF Len(ts) = 1 THEN ts[1]
  ELSE ts[1] \o sep \o Join(Tail(ts), sep)

\* String.prototype.split(d) for a one-character separator d
RECURSIVE SplitFrom(_, _, _)
SplitFrom(s, d, cur) ==
  IF s = <<>> THEN <<cur>>
  ELSE IF Head(s) = d THEN <<cur>> \o SplitFrom(Tail(s), d, <<>>)
  ELSE SplitFrom(Tail(s), d, Append(cur, Head(s)))

Split(s, d) == SplitFrom(s, d, <<>>)

\* the truth value of line.trim(): some character is not whitespace
TrimTruthy(line) == \E i \in 1..Len(line) : line[i] \notin WhitespaceChars

\* Array.prototype.slice(0, n)
SliceFirst(ts, n) ==
  IF Len(ts) <= n THEN ts ELSE SubSeq(ts, 1, n)

\* Array.prototype.slice(-n) for n >= 1
SliceLast(ts, n) ==
  IF Len(ts) <= n THEN ts ELSE SubSeq(ts, Len(ts) - n + 1, Len(ts))

(***************************************************************************)
(* Tokenizer.                                                              *)
(***************************************************************************)
\* text.split('')
SplitChars(str) == [i \in 1..Len(str) |-> <<str[i]>>]

\* One match of /\b[\w']+\b/ starting at position i, or 0 when there is none:
\* the position of the last character of the longest run of [\w'] from i
\* that ends in a word character with a word boundary after it.
IsWordBoundary(str, i) ==
  \* the boundary between text[i] and text[i+1]
  LET l == i >= 1 /\ i <= Len(str) /\ str[i] \in WordChars
      r == i + 1 >= 1 /\ i + 1 <= Len(str) /\ str[i + 1] \in WordChars
  IN  l # r

RunEnd(str, i) ==
  \* last position of the maximal run of [\w'] that starts at i
  LET stops == {j \in i..Len(str) : str[j] \notin (WordChars \cup ApostropheChars)}
  IN  IF stops = {} THEN Len(str)
      ELSE (CHOOSE j \in stops : \A k \in stops : j <= k) - 1

WordMatchEnd(str, i) ==
  IF ~IsWordBoundary(str, i - 1) \/ str[i] \notin (WordChars \cup ApostropheChars)
  THEN 0
  ELSE LET ends == {j \in i..RunEnd(str, i) : IsWordBoundary(str, j)}
       IN  IF ends = {} THEN 0
           ELSE CHOOSE j \in ends : \A k \in ends : k <= j

\* text.match(/\b[\w']+\b|[.,!?;:"()[\]{}]/g) || []
RECURSIVE MatchFrom(_, _)
MatchFrom(str, i) ==
  IF i > Len(str) THEN <<>>
  ELSE IF WordMatchEnd(str, i) # 0
       THEN <<SubSeq(str, i, WordMatchEnd(str, i))>>
            \o MatchFrom(str, WordMatchEnd(str, i) + 1)
  ELSE IF str[i] \in PunctuationChars
       THEN <<(<<str[i]>>)>> \o MatchFrom(str, i + 1)
  ELSE MatchFrom(str, i + 1)

CharType == <<"c", "h", "a", "r">>

WordType == <<"w", "o", "r", "d">>

\* every type tokenized by characters
TokenizeChars(type, str) == SplitChars(str)

\* type is the JavaScript value the Tokenizer was constructed with
Tokenize(type, str) ==
  IF type.type = "string" /\ type.val = CharType THEN SplitChars(str)
  ELSE MatchFrom(str, 1)


(***************************************************************************)
(* Map: a sequence of <<key, value>> pairs in insertion order.             *)
(***************************************************************************)
MapHas(m, k) == \E i \in 1..Len(m) : m[i][1] = k

MapIndex(m, k) == CHOOSE i \in 1..Len(m) : m[i][1] = k

MapGet(m, k) == m[MapIndex(m, k)][2]

\* Map.prototype.set: an existing key keeps its place, a new key goes last
MapSet(m, k, v) ==
  IF MapHas(m, k) THEN [m EXCEPT ![MapIndex(m, k)] = <<k, v>>]
  ELSE Append(m, <<k, v>>)

MapKeys(m) == [i \in 1..Len(m) |-> m[i][1]]

\* the content of a table without its insertion order:
\* the set of (context, successor, count) triples
Triples(table) ==
  UNION {{<<table[i][1], table[i][2][j][1], table[i][2][j][2]>> :
            j \in 1..Len(table[i][2])} : i \in 1..Len(table)}

(***************************************************************************)
(* MarkovModel.train                                                       *)
(***************************************************************************)
\* nextTokens.set(nextToken, (nextTokens.get(nextToken) || 0) + 1)
Increment(nextTokens, nextToken) ==
  MapSet(nextTokens, nextToken,
         (IF MapHas(nextTokens, nextToken) THEN MapGet(nextTokens, nextToken) ELSE 0) + 1)

\* the window with a context one token too long
TrainWindowWide(table, toks, ord, i) ==
  LET context == Join(SubSeq(toks, i, i + ord), <<" ">>)
      nextToken == toks[i + ord]
      withContext == IF MapHas(table, context) THEN table
                     ELSE MapSet(table, context, <<>>)
  IN  MapSet(withContext, context, Increment(MapGet(withContext, context), nextToken))

\* the body of the sliding-window loop for the window that starts at i (1-based)
TrainWindow(table, toks, ord, i) ==
  LET context == Join(SubSeq(toks, i, i + ord - 1), <<" ">>)
      nextToken == toks[i + ord]
      withContext == IF MapHas(table, context) THEN table
                     ELSE MapSet(table, context, <<>>)
  IN  MapSet(withContext, context, Increment(MapGet(withContext, context), nextToken))

\* for (let i = 0; i < tokens.length - this.order; i++)
RECURSIVE TrainWindows(_, _, _, _)
TrainWindows(table, toks, ord, i) ==
  IF Len(table) >= 0 /\ i > Len(toks) - ord THEN table
  ELSE TrainWindows(TrainWindow(table, toks, ord, i), toks, ord, i + 1)

\* for (const line of lines)
RECURSIVE TrainLines(_, _, _, _)
TrainLines(table, lines, ord, type) ==
  IF Len(table) >= 0 /\ lines = <<>> THEN table
  ELSE TrainLines(TrainWindows(table, Tokenize(type, Head(lines)), ord, 1),
                  Tail(lines), ord, type)

\* the text as one line
WholeText(str) == <<str>>

\* text.split('\n').filter(line => line.trim())
NonBlankLines(str) == SelectSeq(Split(str, "\n"), TrimTruthy)

\* for (const text of texts)
RECURSIVE TrainTexts(_, _, _, _)
TrainTexts(table, texts, ord, type) ==
  IF Len(table) >= 0 /\ texts = <<>> THEN table
  ELSE TrainTexts(TrainLines(table, NonBlankLines(Head(texts)), ord, type),
                  Tail(texts), ord, type)

(***************************************************************************)
(* MarkovModel._selectNextToken                                            *)
(*                                                                         *)
(* temperature is n/d with n in {-1, 0, 1}, so that the exponent           *)
(* 1 / temperature is the integer d * n, or Infinity for n = 0, and every  *)
(* weight is a rational number.  Selection compares                        *)
(* random = draw * weightTotal with sums of weights, so the weights are    *)
(* kept up to one common positive factor:                                  *)
(*   exponent e > 0:  (count / total)^e   * total^e             = count^e  *)
(*   exponent e < 0:  (count / total)^e   * (P / total)^(-e)               *)
(*                                        = (P / count)^(-e),              *)
(*                    P the product of the counts                          *)
(*   exponent Infinity: Math.pow gives 0 for count < total and NaN for     *)
(*                    count = total.                                       *)
(***************************************************************************)
RECURSIVE Pow(_, _)
Pow(b, e) == IF e = 0 THEN 1 ELSE b * Pow(b, e - 1)

RECURSIVE SumCounts(_)
SumCounts(entries) ==
  IF entries = <<>> THEN 0 ELSE Head(entries)[2] + SumCounts(Tail(entries))

RECURSIVE ProductCounts(_)
ProductCounts(entries) ==
  IF entries = <<>> THEN 1 ELSE Head(entries)[2] * ProductCounts(Tail(entries))

RECURSIVE SumSeq(_)
SumSeq(ws) == IF ws = <<>> THEN 0 ELSE Head(ws) + SumSeq(Tail(ws))

\* some weight is NaN: Math.pow(1, Infinity)
WeightIsNaN(entries, temperature) ==
  /\ temperature[1] = 0
  /\ \E i \in 1..Len(entries) : entries[i][2] = SumCounts(entries)

Weights(entries, temperature) ==
  LET e == temperature[2] * temperature[1]
  IN  [i \in 1..Len(entries) |->
         IF e > 0 THEN Pow(entries[i][2], e)
         ELSE IF e < 0 THEN Pow(ProductCounts(entries) \div entries[i][2], 0 - e)
         ELSE 0]

\* if (random < cumulativeWeight)
SelectNextTokenStrict(nextTokens, temperature, draw) ==
  LET entries == nextTokens
      weights == Weights(entries, temperature)
      weightTotal == SumSeq(weights)
      hits == {i \in 1..Len(entries) :
                 draw[1] * weightTotal < draw[2] * SumSeq(SubSeq(weights, 1, i))}
  IN  IF WeightIsNaN(entries, temperature) \/ hits = {}
      THEN entries[Len(entries)][1]
      ELSE entries[CHOOSE i \in hits : \A j \in hits : i <= j][1]

\* draw is the value of Math.random(), a number n/d in [0, 1)
SelectNextToken(nextTokens, temperature, draw) ==
  LET entries == nextTokens
      weights == Weights(entries, temperature)
      weightTotal == SumSeq(weights)
      hits == {i \in 1..Len(entries) :
                 draw[1] * weightTotal <= draw[2] * SumSeq(SubSeq(weights, 1, i))}
  IN  IF WeightIsNaN(entries, temperature) \/ hits = {}
      THEN entries[Len(entries)][1]
      ELSE entries[CHOOSE i \in hits : \A j \in hits : i <= j][1]

(***************************************************************************)
(* Tokenizer.detokenize                                                    *)
(***************************************************************************)
ClosingPunctuation ==
  {<<".">>, <<",">>, <<"!">>, <<"?">>, <<";">>, <<":">>, <<")">>, <<"]">>, <<"}">>}

OpeningPunctuation == {<<"(">>, <<"[">>, <<"{">>}

\* the text added for tokens[i]: the token and the space after it, if any.
\* if (nextToken) is false past the end and for an empty token.
DetokenizeAt(ts, i) ==
  ts[i] \o (IF i < Len(ts) /\ Len(ts[i + 1]) # 0
               /\ ts[i + 1] \notin ClosingPunctuation
               /\ ts[i] \notin OpeningPunctuation
            THEN <<" ">> ELSE <<>>)

Detokenize(type, ts) ==
  IF type.type = "string" /\ type.val = CharType THEN Concat(ts)
  ELSE Concat([i \in 1..Len(ts) |-> DetokenizeAt(ts, i)])

(***************************************************************************)
(* MarkovModel._formatGeneratedText                                        *)
(*                                                                         *)
(* Each regular expression is computed as the scan it performs: a match    *)
(* is tried at every position from the left and, where one is found, the   *)
(* scan resumes after it.                                                  *)
(***************************************************************************)
QuoteChar == "\""

\* /[a-zA-Z0-9"]/
ValidStartChars == {"a", "b", "c", "A", "B", "C", "0", "1", QuoteChar}

\* /^[a-z]/
LowerCaseChars == {"a", "b", "c"}

ToUpperCase(c) ==
  CASE c = "a" -> "A"
    [] c = "b" -> "B"
    [] c = "c" -> "C"
    [] OTHER -> c

\* /[.!?]/
SentenceEndChars == {".", "!", "?"}

\* /[.,!?]/
ClauseEndChars == {".", ",", "!", "?"}

\* String.prototype.search(/[...]/): the first position of a character of
\* cls, counted from 0, or -1
Search(str, cls) ==
  LET hits == {i \in 1..Len(str) : str[i] \in cls}
  IN  IF hits = {} THEN -1
      ELSE (CHOOSE i \in hits : \A j \in hits : i <= j) - 1

\* where \s* stops when it starts at position i
SkipSpaces(str, i) ==
  LET stops == {j \in i..Len(str) : str[j] \notin WhitespaceChars}
  IN  IF stops = {} THEN Len(str) + 1
      ELSE CHOOSE j \in stops : \A k \in stops : j <= k

\* String.prototype.trim
Trim(str) ==
  LET kept == {i \in 1..Len(str) : str[i] \notin WhitespaceChars}
  IN  IF kept = {} THEN <<>>
      ELSE SubSeq(str, CHOOSE i \in kept : \A j \in kept : i <= j,
                       CHOOSE i \in kept : \A j \in kept : j <= i)

\* (text.match(/"/g) || []).length
QuoteCount(str) == Cardinality({i \in 1..Len(str) : str[i] = QuoteChar})

\* replace(/\s*(c)\s*/g, before + c + after) for the characters c of cls;
\* c itself is dropped when keep is false
RECURSIVE ReplaceAroundFrom(_, _, _, _, _, _)
ReplaceAroundFrom(str, i, cls, before, keep, after) ==
  IF i > Len(str) THEN <<>>
  ELSE LET j == SkipSpaces(str, i)
       IN  IF j <= Len(str) /\ str[j] \in cls
           THEN before \o (IF keep THEN <<str[j]>> ELSE <<>>) \o after
                \o ReplaceAroundFrom(str, SkipSpaces(str, j + 1), cls, before, keep, after)
           ELSE <<str[i]>> \o ReplaceAroundFrom(str, i + 1, cls, before, keep, after)

ReplaceAround(str, cls, before, keep, after) ==
  ReplaceAroundFrom(str, 1, cls, before, keep, after)

\* replace(/\s+/g, ' ')
RECURSIVE CollapseSpacesFrom(_, _)
CollapseSpacesFrom(str, i) ==
  IF i > Len(str) THEN <<>>
  ELSE IF str[i] \in WhitespaceChars
       THEN <<" ">> \o CollapseSpacesFrom(str, SkipSpaces(str, i))
  ELSE <<str[i]>> \o CollapseSpacesFrom(str, i + 1)

CollapseSpaces(str) == CollapseSpacesFrom(str, 1)

\* the odd branch: quotes and the spaces around them go
RemoveQuotes(str) ==
  Trim(CollapseSpaces(ReplaceAround(str, {QuoteChar}, <<>>, FALSE, <<>>)))

\* replace(/"\s*([^"]*)"\s*([^"]*)"\s*([^"]*)"/g, '"$1"$2"$3"') for g = 4 and
\* replace(/"\s*([^"]*)"\s*([^"]*)"/g, '"$1"$2"') for g = 3: a match spans g
\* quotes in a row, and the spaces after each of them but the last go.
\* k counts the quotes before position i, q those of the whole string.
RECURSIVE NestedQuotesFrom(_, _, _, _, _)
NestedQuotesFrom(str, i, k, g, q) ==
  IF i > Len(str) THEN <<>>
  ELSE IF str[i] # QuoteChar
       THEN <<str[i]>> \o NestedQuotesFrom(str, i + 1, k, g, q)
  ELSE IF k + 1 <= g * (q \div g) /\ (k + 1) % g # 0
       THEN <<str[i]>> \o NestedQuotesFrom(str, SkipSpaces(str, i + 1), k + 1, g, q)
  ELSE <<str[i]>> \o NestedQuotesFrom(str, i + 1, k + 1, g, q)

NestedQuotes(str, g) == NestedQuotesFrom(str, 1, 0, g, QuoteCount(str))

\* text.match(/"[^"]*"/g) || []
RECURSIVE QuotePairsFrom(_, _)
QuotePairsFrom(str, i) ==
  LET opens == {j \in i..Len(str) : str[j] = QuoteChar}
      open == CHOOSE j \in opens : \A k \in opens : j <= k
      closes == {j \in (open + 1)..Len(str) : str[j] = QuoteChar}
      close == CHOOSE j \in closes : \A k \in closes : j <= k
  IN  IF opens = {} THEN <<>>
      ELSE IF closes = {} THEN <<>>
      ELSE <<SubSeq(str, open, close)>> \o QuotePairsFrom(str, close + 1)

QuotePairs(str) == QuotePairsFrom(str, 1)

\* replace(/"\s+/g, '"')
RECURSIVE SpacesAfterQuoteFrom(_, _)
SpacesAfterQuoteFrom(str, i) ==
  IF i > Len(str) THEN <<>>
  ELSE IF str[i] = QuoteChar
       THEN <<str[i]>> \o SpacesAfterQuoteFrom(str, SkipSpaces(str, i + 1))
  ELSE <<str[i]>> \o SpacesAfterQuoteFrom(str, i + 1)

\* replace(/\s+"/g, '"')
RECURSIVE SpacesBeforeQuoteFrom(_, _)
SpacesBeforeQuoteFrom(str, i) ==
  IF i > Len(str) THEN <<>>
  ELSE IF /\ str[i] \in WhitespaceChars
          /\ SkipSpaces(str, i) <= Len(str)
          /\ str[SkipSpaces(str, i)] = QuoteChar
       THEN SpacesBeforeQuoteFrom(str, SkipSpaces(str, i))
  ELSE <<str[i]>> \o SpacesBeforeQuoteFrom(str, i + 1)

CleanPair(pair) == SpacesBeforeQuoteFrom(SpacesAfterQuoteFrom(pair, 1), 1)

\* String.prototype.replace(pattern, replacement) for a string pattern: its
\* first occurrence is replaced (the replacements here hold no $)
ReplaceFirst(str, pattern, replacement) ==
  LET hits == {i \in 1..(Len(str) - Len(pattern) + 1) :
                 SubSeq(str, i, i + Len(pattern) - 1) = pattern}
      at == CHOOSE i \in hits : \A j \in hits : i <= j
  IN  IF hits = {} THEN str
      ELSE SubSeq(str, 1, at - 1) \o replacement
           \o SubSeq(str, at + Len(pattern), Len(str))

\* for (const pair of quotePairs) text = text.replace(pair, cleanPair)
RECURSIVE CleanPairs(_, _)
CleanPairs(str, pairs) ==
  IF pairs = <<>> THEN str
  ELSE CleanPairs(ReplaceFirst(str, Head(pairs), CleanPair(Head(pairs))), Tail(pairs))

\* replace(/([^(\[\s])"/g, '$1 "')
RECURSIVE SpaceBeforeQuotesFrom(_, _)
SpaceBeforeQuotesFrom(str, i) ==
  IF i > Len(str) THEN <<>>
  ELSE IF /\ i < Len(str)
          /\ str[i] \notin ({"(", "["} \cup WhitespaceChars)
          /\ str[i + 1] = QuoteChar
       THEN <<str[i], " ", QuoteChar>> \o SpaceBeforeQuotesFrom(str, i + 2)
  ELSE <<str[i]>> \o SpaceBeforeQuotesFrom(str, i + 1)

\* replace(/"([^.,!?)\]\s])/g, '" $1')
RECURSIVE SpaceAfterQuotesFrom(_, _)
SpaceAfterQuotesFrom(str, i) ==
  IF i > Len(str) THEN <<>>
  ELSE IF /\ i < Len(str)
          /\ str[i] = QuoteChar
          /\ str[i + 1] \notin (ClauseEndChars \cup {")", "]"} \cup WhitespaceChars)
       THEN <<QuoteChar, " ", str[i + 1]>> \o SpaceAfterQuotesFrom(str, i + 2)
  ELSE <<str[i]>> \o SpaceAfterQuotesFrom(str, i + 1)

\* replace(/([.,!?])"/g, '"$1')
RECURSIVE PunctuationInsideQuotesFrom(_, _)
PunctuationInsideQuotesFrom(str, i) ==
  IF i > Len(str) THEN <<>>
  ELSE IF i < Len(str) /\ str[i] \in ClauseEndChars /\ str[i + 1] = QuoteChar
       THEN <<QuoteChar, str[i]>> \o PunctuationInsideQuotesFrom(str, i + 2)
  ELSE <<str[i]>> \o PunctuationInsideQuotesFrom(str, i + 1)

\* replace(/([.!?])\s*([.!?])/g, '$1$2')
RECURSIVE JoinSentenceEndsFrom(_, _)
JoinSentenceEndsFrom(str, i) ==
  IF i > Len(str) THEN <<>>
  ELSE IF /\ str[i] \in SentenceEndChars
          /\ SkipSpaces(str, i + 1) <= Len(str)
          /\ str[SkipSpaces(str, i + 1)] \in SentenceEndChars
       THEN <<str[i], str[SkipSpaces(str, i + 1)]>>
            \o JoinSentenceEndsFrom(str, SkipSpaces(str, i + 1) + 1)
  ELSE <<str[i]>> \o JoinSentenceEndsFrom(str, i + 1)

\* the even branch, one replace after the other
SpaceQuotes(str) ==
  LET nested4 == NestedQuotes(str, 4)
      nested3 == NestedQuotes(nested4, 3)
      pairs == CleanPairs(nested3, QuotePairs(nested3))
      before == SpaceBeforeQuotesFrom(pairs, 1)
      after == SpaceAfterQuotesFrom(before, 1)
      inside == PunctuationInsideQuotesFrom(after, 1)
      ends == JoinSentenceEndsFrom(JoinSentenceEndsFrom(inside, 1), 1)
      comma == ReplaceAround(ends, {","}, <<>>, TRUE, <<" ">>)
      semicolon == ReplaceAround(comma, {";"}, <<>>, TRUE, <<" ">>)
      colon == ReplaceAround(semicolon, {":"}, <<>>, TRUE, <<" ">>)
      lparen == ReplaceAround(colon, {"("}, <<" ">>, TRUE, <<>>)
      rparen == ReplaceAround(lparen, {")"}, <<>>, TRUE, <<" ">>)
      lbracket == ReplaceAround(rparen, {"["}, <<" ">>, TRUE, <<>>)
      rbracket == ReplaceAround(lbracket, {"]"}, <<>>, TRUE, <<" ">>)
      spaces == CollapseSpaces(rbracket)
  IN  Trim(ReplaceAround(spaces, ClauseEndChars, <<>>, TRUE, <<" ">>))

\* text.replace(/\s*$/, '.'): the spaces at the end give way to a period
EndWithPeriod(str) ==
  LET kept == {i \in 1..Len(str) : str[i] \notin WhitespaceChars}
  IN  (IF kept = {} THEN <<>>
       ELSE SubSeq(str, 1, CHOOSE i \in kept : \A j \in kept : j <= i)) \o <<".">>

FormatGeneratedText(str) ==
  LET firstValidChar == Search(str, ValidStartChars)
      sliced == IF firstValidChar > 0
                THEN SubSeq(str, firstValidChar + 1, Len(str)) ELSE str
      capitalized == IF sliced # <<>> /\ sliced[1] \in LowerCaseChars
                     THEN <<ToUpperCase(sliced[1])>> \o Tail(sliced) ELSE sliced
      quoted == IF QuoteCount(capitalized) % 2 # 0
                THEN RemoveQuotes(capitalized) ELSE SpaceQuotes(capitalized)
  IN  IF quoted # <<>> /\ quoted[Len(quoted)] \in SentenceEndChars
      THEN quoted ELSE EndWithPeriod(quoted)

(***************************************************************************)
(* MarkovModel.constructor                                                 *)
(***************************************************************************)
DefaultOrder == 2

DefaultStopTokens == <<(<<".">>), (<<"!">>), (<<"?">>)>>

RECURSIVE SetOf(_)
SetOf(a) == IF a = <<>> THEN {} ELSE {Head(a)} \cup SetOf(Tail(a))

\* new Set(x): the elements of an array, the characters of a string
NewSet(x) ==
  IF x.type = "string" THEN {<<x.val[i]>> : i \in 1..Len(x.val)} ELSE SetOf(x.val)

\* new Set(x) throws when x is not iterable
ConstructorThrows(opts) ==
  OrElse(opts.stopTokens, JArray(DefaultStopTokens)).type \notin {"array", "string"}

\* the fields a constructor call sets
Constructed(opts) ==
  [order |-> OrElse(opts.order, JNumber(DefaultOrder)),
   tokenType |-> OrElse(opts.tokenType, JString(WordType)),
   stopTokens |-> NewSet(OrElse(opts.stopTokens, JArray(DefaultStopTokens))),
   model |-> <<>>]

(***************************************************************************)
(* The inputs.                                                             *)
(***************************************************************************)
Abab == <<"a", " ", "b", " ", "a", " ", "b", " ", "a", " ", "b", ".">>

TwoLines == <<"b", " ", "a", ".", "\n", " ", "\n", "a", " ", "b", "!", " ", "b">>

Corpora == {JString(Abab), JString(TwoLines)}

ConstructorOptions ==
  [order : {JUndefined} \cup {JNumber(n) : n \in 1..MaxOrder},
   tokenType : {JUndefined, JString(CharType)},
   stopTokens : {JUndefined}]

Draws == {<<n, DrawDen>> : n \in 0..(DrawDen - 1)}

Seeds ==
  {JUndefined, JString(<<>>), JString(<<" ">>), JString(<<"a">>),
   JString(<<"b", " ", "a">>)}

GenerateOptions ==
  [maxLength : {JNumber(n) : n \in 1..MaxLength},
   temperature : {JNumber(<<1, 1>>), JNumber(<<0, 1>>), JNumber(<<-1, 1>>)},
   stopProbability : {JNumber(<<0, 1>>), JNumber(<<1, 1>>)},
   seed : Seeds,
   multipleSentenceProbability :
     {JUndefined, JNumber(<<-1, 2>>), JNumber(<<1, 2>>), JNumber(<<1, 1>>)}]

(***************************************************************************)
(* The initial state: a model just constructed, no generate call running.  *)
(***************************************************************************)
NoOptions ==
  [maxLength |-> JUndefined, temperature |-> JUndefined,
   stopProbability |-> JUndefined, seed |-> JUndefined,
   multipleSentenceProbability |-> JUndefined]

GenIdle ==
  /\ pc = "idle"
  /\ options = NoOptions
  /\ tokens = <<>>
  /\ currentLength = 0
  /\ tokenized = FALSE
  /\ samples = 0
  /\ iterations = 0
  /\ outcome = "none"
  /\ text = JUndefined

NoFile == [type |-> "none"]

NotLoaded == [state |-> "none"]

IoIdle == file = NoFile /\ loaded = NotLoaded

ParIdle == largeText = <<>> /\ chunks = <<>> /\ results = <<>> /\ merged = {}

Init ==
  /\ \E opts \in ConstructorOptions :
       /\ order = Constructed(opts).order
       /\ tokenType = Constructed(opts).tokenType
       /\ stopTokens = Constructed(opts).stopTokens
       /\ model = Constructed(opts).model
  /\ trains = 0
  /\ GenIdle
  /\ IoIdle
  /\ ParIdle

(***************************************************************************)
(* MarkovModel.train                                                       *)
(***************************************************************************)
\* a fresh table for every call
TrainCorpusReset(table, corpus, ord, type) ==
  TrainTexts(<<>>, IF corpus.type = "array" THEN corpus.val ELSE <<corpus.val>>,
             ord, type)

\* const texts = Array.isArray(corpus) ? corpus : [corpus], and the loop
TrainCorpus(table, corpus, ord, type) ==
  TrainTexts(table, IF corpus.type = "array" THEN corpus.val ELSE <<corpus.val>>,
             ord, type)

\* a train call, while fewer than cap calls have been made
TrainCall(corpus, cap) ==
  /\ pc = "idle"
  /\ trains < cap
  /\ model' = TrainCorpus(model, corpus, order.val, tokenType)
  /\ trains' = trains + 1
  /\ UNCHANGED <<order, tokenType, stopTokens, genVars, ioVars, parVars>>

Train(corpus) == TrainCall(corpus, MaxTrains)

(***************************************************************************)
(* MarkovModel.generate                                                    *)
(***************************************************************************)
DefaultMaxLength == 100

maxLength == Default(options.maxLength, JNumber(DefaultMaxLength)).val

temperature == Default(options.temperature, JNumber(<<4, 5>>)).val

stopProbability == Default(options.stopProbability, JNumber(<<7, 10>>)).val

seed == Default(options.seed, JNull)

multipleSentenceProbability ==
  Default(options.multipleSentenceProbability, JNumber(<<0, 1>>)).val

MspError == "Error: multipleSentenceProbability must be between 0 and 1"

SeedError == "Error: Seed text must be at least as long as the model order"

TypeError == "TypeError: Cannot read properties of undefined"

\* multipleSentenceProbability < 0 || multipleSentenceProbability >= 1
MspInvalidStrict(msp) == Less(msp, <<0, 1>>) \/ Less(<<1, 1>>, msp)

MspInvalid(msp) == Less(msp, <<0, 1>>) \/ LessEq(<<1, 1>>, msp)

\* the call, the destructuring of its argument and the validation
GenerateCall(opts) ==
  /\ pc = "idle"
  /\ options' = opts
  /\ IF MspInvalid(Default(opts.multipleSentenceProbability, JNumber(<<0, 1>>)).val)
     THEN pc' = "threw" /\ outcome' = MspError
     ELSE pc' = "init" /\ outcome' = "none"
  /\ UNCHANGED <<order, tokenType, stopTokens, model, trains, ioVars, parVars,
                 tokens, currentLength, tokenized, samples, iterations, text>>

\* contexts[Math.floor(Math.random() * contexts.length)]
RandomContextOrEmpty(contexts, draw) ==
  LET index == (draw[1] * Len(contexts)) \div draw[2]
  IN  IF index + 1 \in DOMAIN contexts THEN JString(contexts[index + 1])
      ELSE JString(<<>>)

RandomContext(contexts, draw) ==
  LET index == (draw[1] * Len(contexts)) \div draw[2]
  IN  IF index + 1 \in DOMAIN contexts THEN JString(contexts[index + 1])
      ELSE JUndefined

\* Initialize with seed or random context
GenerateInit ==
  /\ pc = "init"
  /\ IF Truthy(seed)
     THEN LET seedTokens == Tokenize(tokenType, seed.val)
          IN  /\ tokenized' = TRUE
              /\ tokens' = seedTokens
              /\ IF Len(seedTokens) < order.val
                 THEN pc' = "threw" /\ outcome' = SeedError
                      /\ UNCHANGED currentLength
                 ELSE pc' = "loop" /\ currentLength' = Len(seedTokens)
                      /\ UNCHANGED outcome
     ELSE \E draw \in Draws :
            LET randomContext == RandomContext(MapKeys(model), draw)
            IN  /\ UNCHANGED tokenized
                /\ IF randomContext.type = "string"
                   THEN /\ tokens' = Split(randomContext.val, " ")
                        /\ currentLength' = Len(tokens')
                        /\ pc' = "loop"
                        /\ UNCHANGED outcome
                   ELSE \* randomContext.split throws
                        /\ pc' = "threw" /\ outcome' = TypeError
                        /\ UNCHANGED <<tokens, currentLength>>
  /\ UNCHANGED <<order, tokenType, stopTokens, model, trains, ioVars, parVars,
                 options, samples, iterations, text>>

\* the test of the while loop fails
GenerateLoopEnd ==
  /\ pc = "loop"
  /\ ~(currentLength < maxLength)
  /\ pc' = "format"
  /\ outcome' = "MAX-LENGTH"
  /\ UNCHANGED <<order, tokenType, stopTokens, model, trains, ioVars, parVars, options,
                 tokens, currentLength, tokenized, samples, iterations, text>>

\* if (Math.random() >= stopProbability)
StopCheckInverted(nextToken, u, v) ==
  IF nextToken \in stopTokens /\ ~Less(u, stopProbability)
  THEN IF Less(<<0, 1>>, multipleSentenceProbability)
          /\ Less(v, multipleSentenceProbability)
       THEN "separator"
       ELSE "stop"
  ELSE "continue"

\* the stop-token check that follows tokens.push(nextToken), for the draws
\* u and v of Math.random(): "stop" (break), "separator" (push ' ' and
\* continue) or "continue".  v is drawn only if the test before && holds.
StopCheck(nextToken, u, v) ==
  IF nextToken \in stopTokens /\ Less(u, stopProbability)
  THEN IF Less(<<0, 1>>, multipleSentenceProbability)
          /\ Less(v, multipleSentenceProbability)
       THEN "separator"
       ELSE "stop"
  ELSE "continue"

PushedUncounted(nextToken, check) ==
  /\ samples' = samples + 1
  /\ tokens' = Append(tokens, nextToken)
               \o (IF check = "separator" THEN <<(<<" ">>)>> ELSE <<>>)
  /\ currentLength' = currentLength
  /\ IF check = "stop"
     THEN pc' = "format" /\ outcome' = "SENTENCE-END"
     ELSE pc' = "loop" /\ UNCHANGED outcome

\* the state after tokens.push(nextToken) and the stop-token check
Pushed(nextToken, check) ==
  /\ samples' = samples + 1
  /\ tokens' = Append(tokens, nextToken)
               \o (IF check = "separator" THEN <<(<<" ">>)>> ELSE <<>>)
  /\ currentLength' = currentLength + (IF check = "separator" THEN 2 ELSE 1)
  /\ IF check = "stop"
     THEN pc' = "format" /\ outcome' = "SENTENCE-END"
     ELSE pc' = "loop" /\ UNCHANGED outcome

\* one iteration of the while loop
GenerateStep ==
  /\ pc = "loop"
  /\ currentLength < maxLength
  /\ iterations' = iterations + 1
  /\ LET context == Join(SliceLast(tokens, order.val), <<" ">>)
     IN  IF ~MapHas(model, context)
         THEN /\ pc' = "format"
              /\ outcome' = "DEAD-END"
              /\ UNCHANGED <<tokens, currentLength, samples>>
         ELSE \E draw \in Draws :
                LET nextToken ==
                      SelectNextToken(MapGet(model, context), temperature, draw)
                IN  IF nextToken \in stopTokens
                    THEN \E u \in Draws :
                           IF Less(u, stopProbability)
                              /\ Less(<<0, 1>>, multipleSentenceProbability)
                           THEN \E v \in Draws :
                                  Pushed(nextToken, StopCheck(nextToken, u, v))
                           ELSE Pushed(nextToken, StopCheck(nextToken, u, u))
                    ELSE Pushed(nextToken, "continue")
  /\ UNCHANGED <<order, tokenType, stopTokens, model, trains, ioVars, parVars, options, tokenized, text>>

\* the detokenized text, returned as it is
GenerateFormatRaw ==
  /\ pc = "format"
  /\ text' = JString(Detokenize(tokenType, tokens))
  /\ pc' = "returned"
  /\ UNCHANGED <<order, tokenType, stopTokens, model, trains, ioVars, parVars, options,
                 tokens, currentLength, tokenized, samples, iterations, outcome>>

\* Detokenize and format the text
GenerateFormat ==
  /\ pc = "format"
  /\ text' = JString(FormatGeneratedText(Detokenize(tokenType, tokens)))
  /\ pc' = "returned"
  /\ UNCHANGED <<order, tokenType, stopTokens, model, trains, ioVars, parVars, options,
                 tokens, currentLength, tokenized, samples, iterations, outcome>>

\* the caller has the result or the error; the locals of the call are gone
GenerateDone ==
  /\ pc \in {"returned", "threw"}
  /\ pc' = "idle"
  /\ options' = NoOptions
  /\ tokens' = <<>>
  /\ currentLength' = 0
  /\ tokenized' = FALSE
  /\ samples' = 0
  /\ iterations' = 0
  /\ outcome' = "none"
  /\ text' = JUndefined
  /\ UNCHANGED <<order, tokenType, stopTokens, model, trains, ioVars, parVars>>

Generate ==
  \/ \E opts \in GenerateOptions : GenerateCall(opts)
  \/ GenerateInit
  \/ GenerateStep
  \/ GenerateLoopEnd
  \/ GenerateFormat
  \/ GenerateDone

Next ==
  \/ \E corpus \in Corpora : Train(corpus)
  \/ Generate

Spec == Init /\ [][Next]_vars

(***************************************************************************)
(* MarkovModel.save and MarkovModel.load                                   *)
(***************************************************************************)
\* Array.from(set): the elements of the set, in its iteration order
RECURSIVE ArrayFromSet(_)
ArrayFromSet(set) ==
  IF set = {} THEN <<>>
  ELSE LET x == CHOOSE y \in set : TRUE
       IN  <<x>> \o ArrayFromSet(set \ {x})

\* Array.from(map.entries()): the <<key, value>> pairs in insertion order
Entries(map) == [i \in 1..Len(map) |-> <<map[i][1], map[i][2]>>]

\* new Map(entries): a key given twice keeps its first place and last value
RECURSIVE NewMapFrom(_, _)
NewMapFrom(map, entries) ==
  IF Len(map) >= 0 /\ entries = <<>> THEN map
  ELSE NewMapFrom(MapSet(map, Head(entries)[1], Head(entries)[2]), Tail(entries))

NewMap(entries) == NewMapFrom(<<>>, entries)

\* the object save would write with the inner Maps left as they are:
\* JSON.stringify writes a Map as {}, which holds no entries
SerializedInnerMaps(ord, type, stops, table) ==
  [order |-> ord,
   tokenType |-> type,
   stopTokens |-> JArray(ArrayFromSet(stops)),
   model |-> JArray([i \in 1..Len(table) |-> <<table[i][1], <<>> >>])]

\* the object save writes, as JSON.parse reads it back
Serialized(ord, type, stops, table) ==
  [order |-> ord,
   tokenType |-> type,
   stopTokens |-> JArray(ArrayFromSet(stops)),
   model |-> JArray([i \in 1..Len(table) |->
                       <<table[i][1], Entries(table[i][2])>>])]

\* data.model.map(([context, nextTokens]) => [context, new Map(nextTokens)])
LoadedTable(entries) ==
  NewMap([i \in 1..Len(entries) |-> <<entries[i][1], NewMap(entries[i][2])>>])

\* what MarkovModel.load does with the parsed file
LoadResult(data) ==
  LET opts == [order |-> data.order, tokenType |-> data.tokenType,
               stopTokens |-> data.stopTokens]
  IN  IF ConstructorThrows(opts) \/ data.model.type # "array"
      THEN [state |-> "threw", from |-> data]
      ELSE [state |-> "returned", from |-> data,
            order |-> Constructed(opts).order,
            tokenType |-> Constructed(opts).tokenType,
            stopTokens |-> Constructed(opts).stopTokens,
            model |-> LoadedTable(data.model.val)]

Save ==
  /\ pc = "idle"
  /\ file' = Serialized(order, tokenType, stopTokens, model)
  /\ UNCHANGED <<order, tokenType, stopTokens, model, trains, genVars, loaded, parVars>>

\* a file that fails structural validation: a field is missing or has the
\* wrong type
SnapshotFields == {"order", "tokenType", "stopTokens", "model"}

WrongType(field) ==
  IF field = "order" THEN JString(<<"2">>) ELSE JNumber(7)

Damaged(data) ==
  {[data EXCEPT ![f] = v] : f \in SnapshotFields, v \in {JUndefined}}
  \cup {[data EXCEPT ![f] = WrongType(f)] : f \in SnapshotFields}

Load(data) ==
  /\ pc = "idle"
  /\ loaded' = LoadResult(data)
  /\ UNCHANGED <<order, tokenType, stopTokens, model, trains, genVars, file, parVars>>

PersistOptions ==
  [order : {JUndefined} \cup {JNumber(n) : n \in 1..MaxOrder},
   tokenType : {JUndefined, JString(CharType)},
   stopTokens : {JUndefined, JArray(<<>>), JArray(<<(<<".">>)>>)}]

InitPersist ==
  /\ \E opts \in PersistOptions :
       /\ order = Constructed(opts).order
       /\ tokenType = Constructed(opts).tokenType
       /\ stopTokens = Constructed(opts).stopTokens
       /\ model = Constructed(opts).model
  /\ trains = 0
  /\ GenIdle
  /\ IoIdle
  /\ ParIdle

NextPersist ==
  \/ \E corpus \in Corpora : Train(corpus)
  \/ Save
  \/ file # NoFile /\ Load(file)
  \/ file # NoFile /\ \E data \in Damaged(file) : Load(data)

SpecPersist == InitPersist /\ [][NextPersist]_vars

(***************************************************************************)
(* Parallel training: processChunk of worker.js and the merge loop of      *)
(* trainParallel in the README.                                            *)
(***************************************************************************)
\* processChunk({chunk, order, tokenType})
ProcessChunkResult(opts) ==
  LET m == Constructed([order |-> opts.order, tokenType |-> opts.tokenType,
                        stopTokens |-> JUndefined])
      table == TrainCorpus(m.model, opts.chunk, m.order.val, m.tokenType)
  IN  [i \in 1..Len(table) |-> <<table[i][1], Entries(table[i][2])>>]

\* nextTokens.forEach(([token, count]) => ...) with the count overwritten
RECURSIVE MergeTokensOverwriting(_, _)
MergeTokensOverwriting(successors, nextTokens) ==
  IF Len(successors) >= 0 /\ nextTokens = <<>> THEN successors
  ELSE MergeTokensOverwriting(
         MapSet(successors, Head(nextTokens)[1], Head(nextTokens)[2]),
         Tail(nextTokens))

\* nextTokens.forEach(([token, count]) => ...)
RECURSIVE MergeTokens(_, _)
MergeTokens(successors, nextTokens) ==
  IF Len(successors) >= 0 /\ nextTokens = <<>> THEN successors
  ELSE MergeTokens(
         MapSet(successors, Head(nextTokens)[1],
                (IF MapHas(successors, Head(nextTokens)[1])
                 THEN MapGet(successors, Head(nextTokens)[1]) ELSE 0)
                + Head(nextTokens)[2]),
         Tail(nextTokens))

\* the body of result.forEach(([context, nextTokens]) => ...)
MergeEntry(table, context, nextTokens) ==
  LET withContext == IF MapHas(table, context) THEN table
                     ELSE MapSet(table, context, <<>>)
  IN  MapSet(withContext, context, MergeTokens(MapGet(withContext, context), nextTokens))

\* result.forEach(...)
RECURSIVE MergeResult(_, _)
MergeResult(table, result) ==
  IF Len(table) >= 0 /\ result = <<>> THEN table
  ELSE MergeResult(MergeEntry(table, Head(result)[1], Head(result)[2]), Tail(result))

\* a worker runs processChunk on chunk i
ProcessChunk(i) ==
  /\ i \in DOMAIN chunks
  /\ results[i].type = "undefined"
  /\ results' = [results EXCEPT ![i] =
       JArray(ProcessChunkResult([chunk |-> JString(chunks[i]), order |-> order,
                                  tokenType |-> tokenType]))]
  /\ UNCHANGED <<order, tokenType, stopTokens, model, trains, genVars, ioVars,
                 largeText, chunks, merged>>

\* the result of chunk i is merged into markov.model
Merge(i) ==
  /\ i \in DOMAIN chunks
  /\ i \notin merged
  /\ results[i].type = "array"
  /\ model' = MergeResult(model, results[i].val)
  /\ merged' = merged \cup {i}
  /\ UNCHANGED <<order, tokenType, stopTokens, trains, genVars, ioVars,
                 largeText, chunks, results>>

\* The inputs of trainParallel: a text of at most MaxLines lines and its
\* split into at most MaxChunks chunks of whole lines.
MaxLines == 2

MaxChunks == 2

ChunkLines == {<<"a", " ", "b", " ", "a">>, <<"b", " ", "a", ".">>, <<" ">>}

\* the lines of ls that the assignment sends to chunk k, in their order
LinesOf(ls, assignment, k) ==
  LET idx == {i \in 1..Len(ls) : assignment[i] = k}
      nth(n) == CHOOSE i \in idx : Cardinality({j \in idx : j < i}) = n - 1
  IN  [n \in 1..Cardinality(idx) |-> ls[nth(n)]]

ChunksOf(ls, assignment) ==
  [k \in 1..MaxChunks |-> Join(LinesOf(ls, assignment, k), <<"\n">>)]

InitParallel ==
  /\ \E opts \in ConstructorOptions :
       /\ order = Constructed(opts).order
       /\ tokenType = Constructed(opts).tokenType
       /\ stopTokens = Constructed(opts).stopTokens
       /\ model = Constructed(opts).model
  /\ trains = 0
  /\ GenIdle
  /\ IoIdle
  /\ \E n \in 1..MaxLines :
       \E ls \in [1..n -> ChunkLines], assignment \in [1..n -> 1..MaxChunks] :
         /\ largeText = Join(ls, <<"\n">>)
         /\ chunks = ChunksOf(ls, assignment)
  /\ results = [k \in 1..MaxChunks |-> JUndefined]
  /\ merged = {}

NextParallel ==
  \/ \E i \in 1..MaxChunks : ProcessChunk(i)
  \/ \E i \in 1..MaxChunks : Merge(i)
  \/ \E corpus \in Corpora : Train(corpus)

SpecParallel == InitParallel /\ [][NextParallel]_vars

(***************************************************************************)
(* train called several times on one model, with a text or an array of     *)
(* texts.                                                                  *)
(***************************************************************************)
MaxTrainCalls == 2

\* lines too short for a window of order 2
ShortLines == <<"a", "\n", "b", " ", "a">>

TrainTextInputs == {Abab, TwoLines, ShortLines}

TrainInputs ==
  {JString(t) : t \in TrainTextInputs}
    \cup {JArray(<<t1, t2>>) : t1, t2 \in TrainTextInputs}

NextTrain == \E corpus \in TrainInputs : TrainCall(corpus, MaxTrainCalls)

SpecTrain == Init /\ [][NextTrain]_vars

(***************************************************************************)
(* generate on a model already trained on one corpus, for calls long       *)
(* enough to walk a whole line of the corpus.                              *)
(***************************************************************************)
\* the tokens of the line "a b a b a b."
WalkTokens == Tokenize(JString(WordType), Abab)

WalkOptions ==
  [maxLength : {JNumber(Len(WalkTokens)), JNumber(Len(WalkTokens) + 1)},
   temperature : {JNumber(<<1, 1>>), JNumber(<<1, 2>>)},
   stopProbability : {JNumber(<<0, 1>>), JNumber(<<1, 2>>), JNumber(<<1, 1>>)},
   seed : {JUndefined, JString(<<"a">>), JString(<<"!">>)},
   multipleSentenceProbability : {JUndefined, JNumber(<<1, 2>>)}]

InitWalk ==
  /\ \E opts \in ConstructorOptions, corpus \in Corpora :
       /\ order = Constructed(opts).order
       /\ tokenType = Constructed(opts).tokenType
       /\ stopTokens = Constructed(opts).stopTokens
       /\ model = TrainCorpus(Constructed(opts).model, corpus,
                              Constructed(opts).order.val, Constructed(opts).tokenType)
  /\ trains = 1
  /\ GenIdle
  /\ IoIdle
  /\ ParIdle

NextWalk ==
  \/ \E opts \in WalkOptions : GenerateCall(opts)
  \/ GenerateInit
  \/ GenerateStep
  \/ GenerateLoopEnd
  \/ GenerateFormat
  \/ GenerateDone

SpecWalk == InitWalk /\ [][NextWalk]_vars

(***************************************************************************)
(* The claims about generate.                                              *)
(***************************************************************************)
Running == pc # "idle"

LoopEnded == pc \in {"format", "returned"}

\* C2: when the loop of generate has ended, tokens holds at most maxLength
\* tokens, seed or random-start tokens and separators included.
C2_LengthBound == LoopEnded => Len(tokens) <= maxLength

\* C3: every generate call terminates.  While the call is in its loop a
\* step of the loop can always be taken, every step that stays in the loop
\* is one more iteration, there are never more than maxLength iterations,
\* and the loop ends with DEAD-END, SENTENCE-END or MAX-LENGTH.
C3_Terminates ==
  /\ [](pc = "loop" => ENABLED (GenerateStep \/ GenerateLoopEnd))
  /\ [][pc = "loop" /\ pc' = "loop" => iterations' = iterations + 1]_vars
  /\ [](Running => iterations <= maxLength)
  /\ [](LoopEnded => outcome \in {"DEAD-END", "SENTENCE-END", "MAX-LENGTH"})

C3_Witness == pc = "format" /\ outcome = "MAX-LENGTH" /\ iterations >= 2

\* the seed given is a string whose tokenization has fewer than order tokens
ShortSeedGiven ==
  /\ Running
  /\ options.seed.type = "string"
  /\ Len(Tokenize(tokenType, options.seed.val)) < order.val

\* C6: a seed string (the empty string and whitespace-only strings included)
\* with fewer than order tokens makes generate raise an error: there is no
\* random start, no token is sampled and no text is returned.
C6_ShortSeedRejected ==
  (ShortSeedGiven /\ pc # "init")
    => (pc = "threw" /\ samples = 0 /\ text = JUndefined)

\* C7: generate raises the validation error, before the seed is tokenized or
\* a token is sampled, exactly when multipleSentenceProbability < 0 or >= 1.
C7_MspValidation ==
  Running =>
    IF Less(multipleSentenceProbability, <<0, 1>>)
       \/ LessEq(<<1, 1>>, multipleSentenceProbability)
    THEN /\ pc = "threw" /\ outcome = MspError
         /\ ~tokenized /\ tokens = <<>> /\ samples = 0 /\ text = JUndefined
    ELSE outcome # MspError

C7_Witness ==
  /\ pc = "threw" /\ outcome = MspError
  /\ multipleSentenceProbability = <<1, 1>>
  /\ options.seed.type = "string"

\* C8: with temperature <= 0 generate samples no token and returns no text.
C8_TemperatureRejected ==
  (Running /\ LessEq(temperature, <<0, 1>>)) => (samples = 0 /\ pc # "returned")

\* C9: generate with no seed on a model whose table is empty fails with an
\* error and returns no text, whatever the other fields of the request.
C9_EmptyModelFails ==
  (Running /\ pc # "init" /\ seed.type = "null" /\ model = <<>>)
    => (pc = "threw" /\ text = JUndefined)

C9_Witness ==
  /\ pc = "threw" /\ outcome = TypeError
  /\ seed.type = "null" /\ model = <<>>

(***************************************************************************)
(* The claims about training, merging and persistence.                     *)
(***************************************************************************)
AllMerged == chunks # <<>> /\ merged = DOMAIN chunks

\* C1: the chunks of a text, each trained by processChunk into its own
\* table and merged into an empty model in any order, give the same
\* (context, successor, count) triples as one train call on the whole text.
C1_MergeEqualsTrain ==
  (AllMerged /\ trains = 0)
    => Triples(model) =
         Triples(TrainCorpus(<<>>, JString(largeText), order.val, tokenType))

C1_Witness ==
  /\ AllMerged /\ trains = 0
  /\ Cardinality({k \in DOMAIN chunks : results[k].val # <<>>}) >= 2
  /\ \E t \in Triples(model) : t[3] >= 2

\* the tokens a context key is the join of
ContextTokens(key, type) ==
  IF type.val = CharType
  THEN [i \in 1..((Len(key) + 1) \div 2) |-> <<key[2 * i - 1]>>]
  ELSE Split(key, " ")

IsToken(t, type) ==
  IF type.val = CharType THEN Len(t) = 1 ELSE Tokenize(type, t) = <<t>>

IsContextOf(key, n, type) ==
  LET ts == ContextTokens(key, type)
  IN  /\ Len(ts) = n
      /\ Join(ts, <<" ">>) = key
      /\ \A i \in 1..Len(ts) : IsToken(ts[i], type)

\* C4: after any train calls and merges, every context key is the join of
\* exactly order tokens, every context has a successor, and every count is
\* an integer >= 1.
C4_TableWellFormed ==
  \A i \in 1..Len(model) :
    /\ IsContextOf(model[i][1], order.val, tokenType)
    /\ model[i][2] # <<>>
    /\ \A j \in 1..Len(model[i][2]) :
         model[i][2][j][2] \in Nat /\ model[i][2][j][2] >= 1

C4_Witness ==
  /\ trains >= 1 /\ merged # {}
  /\ \E t \in Triples(model) : t[3] >= 3
  /\ tokenType.val = CharType

\* C5: load(save(M)) has the table of M (contexts, successors, counts) and
\* its configuration, also with no stop tokens and with an empty table.
C5_SaveLoadRoundTrip ==
  (loaded.state # "none"
   /\ loaded.from = Serialized(order, tokenType, stopTokens, model))
    => /\ loaded.state = "returned"
       /\ Triples(loaded.model) = Triples(model)
       /\ MapKeys(loaded.model) = MapKeys(model)
       /\ loaded.order = order
       /\ loaded.tokenType = tokenType
       /\ loaded.stopTokens = stopTokens

C5_Witness ==
  /\ loaded.state = "returned"
  /\ loaded.from = Serialized(order, tokenType, stopTokens, model)
  /\ stopTokens = {}
  /\ \E t \in Triples(model) : t[3] >= 2

\* the data fails structural validation
Malformed(data) ==
  \/ data.order.type # "number"
  \/ data.tokenType.type # "string"
  \/ data.stopTokens.type # "array"
  \/ data.model.type # "array"

\* C10: load of a snapshot that fails structural validation raises an error
\* and returns no model.
C10_MalformedLoadFails ==
  (loaded.state # "none" /\ Malformed(loaded.from)) => loaded.state = "threw"

(***************************************************************************)
(* The claims about the walk of generate.                                  *)
(***************************************************************************)
\* the largest value the random source of the model returns
MaxDraw == <<DrawDen - 1, DrawDen>>

\* the context generate looks up before it appends tokens[i]
ContextBefore(i) == Join(SliceLast(SubSeq(tokens, 1, i - 1), order.val), <<" ">>)

\* the order-1 word model trained on the single line "a b a b a b."
AbabModel ==
  /\ order = JNumber(1)
  /\ tokenType = JString(WordType)
  /\ model = TrainCorpus(<<>>, JString(Abab), 1, JString(WordType))

\* a call with seed "a", temperature 1 and stopProbability 1 has returned,
\* and every token after the seed is the one the sampler returns for the
\* maximum draw (with stopProbability 1 the maximum draw u stops at the
\* first stop token, and the maximum draw v appends no separator)
MaxDrawWalkDone ==
  /\ AbabModel
  /\ pc = "returned"
  /\ seed = JString(<<"a">>)
  /\ temperature = <<1, 1>>
  /\ stopProbability = <<1, 1>>
  /\ outcome = "SENTENCE-END"
  /\ \A i \in 2..Len(tokens) :
       /\ MapHas(model, ContextBefore(i))
       /\ tokens[i] = SelectNextToken(MapGet(model, ContextBefore(i)), temperature, MaxDraw)

\* C11: on the order-1 model trained on "a b a b a b.", the call with seed
\* "a", temperature 1, stopProbability 1 and a random source that always
\* returns the maximum draw walks a, b, a, b, a, b, . and returns the text
\* "A b a b a b.".
C11_MaxDrawWalk ==
  MaxDrawWalkDone =>
    /\ tokens = WalkTokens
    /\ text = JString(<<"A", " ", "b", " ", "a", " ", "b", " ", "a", " ", "b", ".">>)

\* the context generate looks up next, and its successor counts
NextContext == Join(SliceLast(tokens, order.val), <<" ">>)

\* Math.pow(count / total, 1 / temperature) for temperature = 1/d, times
\* total^d, and the sum of the first k of these weights
CumulativeWeight(entries, d, k) ==
  SumSeq([i \in 1..k |-> Pow(entries[i][2], d)])

\* token is what the claim says of the entries, the temperature 1/d and the
\* draw: the key of the first entry whose cumulative weight is >= the draw
\* (random = draw * weightTotal), or of the last entry when there is none
Selected(entries, d, draw, token) ==
  \E k \in 1..Len(entries) :
    /\ token = entries[k][1]
    /\ LET reached(j) ==
             draw[1] * CumulativeWeight(entries, d, Len(entries))
               <= draw[2] * CumulativeWeight(entries, d, j)
       IN  \/ reached(k) /\ \A j \in 1..(k - 1) : ~reached(j)
           \/ k = Len(entries) /\ \A j \in 1..Len(entries) : ~reached(j)

\* C12: for a non-empty successor-count map with counts > 0, a temperature
\* > 0 and any draw, _selectNextToken returns a key of the map: that of the
\* first entry in iteration order whose cumulative weight is >= the draw,
\* or that of the last entry when there is none.
C12_SelectReturnsKey ==
  (pc = "loop" /\ MapHas(model, NextContext) /\ Less(<<0, 1>>, temperature)) =>
    \A draw \in Draws :
      Selected(MapGet(model, NextContext), temperature[2], draw,
               SelectNextToken(MapGet(model, NextContext), temperature, draw))

\* the sampler has run in this call and is about to choose between two
\* successors of unequal counts at temperature 1/2
C12_Witness ==
  /\ pc = "loop"
  /\ samples >= 1
  /\ temperature = <<1, 2>>
  /\ MapHas(model, NextContext)
  /\ \E i, j \in 1..Len(MapGet(model, NextContext)) :
       MapGet(model, NextContext)[i][2] < MapGet(model, NextContext)[j][2]

(***************************************************************************)
(* The claims about train.                                                 *)
(***************************************************************************)
\* every count of the table before is a count at least as large after
CountsKept(before, after) ==
  \A old \in Triples(before) :
    \E new \in Triples(after) :
      new[1] = old[1] /\ new[2] = old[2] /\ new[3] >= old[3]

\* C13: training accumulates.  Over a train call no (context, successor)
\* count decreases and no entry is removed, and the table after train(T1)
\* followed by train(T2) on a fresh model is the table of the single call
\* train([T1, T2]).
C13_TrainingAccumulates ==
  [][trains' = trains + 1 =>
       /\ CountsKept(model, model')
       /\ \A t1, t2 \in TrainTextInputs :
            (/\ trains = 1
             /\ model = TrainCorpus(<<>>, JString(t1), order.val, tokenType)
             /\ model' = TrainCorpus(model, JString(t2), order.val, tokenType))
            => model' = TrainCorpus(<<>>, JArray(<<t1, t2>>), order.val, tokenType)]_vars

\* two calls on the same text: the second one raised a count of the first
C13_Witness ==
  /\ trains = 2
  /\ model = TrainCorpus(TrainCorpus(<<>>, JString(Abab), order.val, tokenType),
                         JString(Abab), order.val, tokenType)
  /\ \E triple \in Triples(model) : triple[3] >= 4

\* the non-blank lines of the texts of a corpus, tokenized
TokenLines(corpus, type) ==
  LET texts == IF corpus.type = "array" THEN corpus.val ELSE <<corpus.val>>
      lines(k) == SelectSeq(Split(texts[k], "\n"), TrimTruthy)
  IN  UNION {{Tokenize(type, lines(k)[l]) : l \in 1..Len(lines(k))} :
               k \in 1..Len(texts)}

\* the pairs (line, i), as <<text, line, i>>, whose window of ord tokens at i
\* (from 0) is the context and whose next token is the token
Occurrences(corpus, ord, type, context, token) ==
  LET texts == IF corpus.type = "array" THEN corpus.val ELSE <<corpus.val>>
      lines(k) == SelectSeq(Split(texts[k], "\n"), TrimTruthy)
      toks(k, l) == Tokenize(type, lines(k)[l])
  IN  UNION {UNION {{<<k, l, i>> : i \in {i \in 0..(Len(toks(k, l)) - ord - 1) :
                                    /\ SubSeq(toks(k, l), i + 1, i + ord) = context
                                    /\ toks(k, l)[i + ord + 1] = token}} :
                      l \in 1..Len(lines(k))} : k \in 1..Len(texts)}

\* the windows of a tokenized line: <<context, next token>>
WindowsOf(line, ord) ==
  {<<SubSeq(line, i + 1, i + ord), line[i + ord + 1]>> : i \in 0..(Len(line) - ord - 1)}

\* the table the claim defines, as triples
CountedTriples(corpus, ord, type) ==
  {<<Join(w[1], <<" ">>), w[2], Cardinality(Occurrences(corpus, ord, type, w[1], w[2]))>> :
     w \in UNION {WindowsOf(line, ord) : line \in TokenLines(corpus, type)}}

\* the table of the spec for "a b a b a b." with order 1
AbabTable ==
  <<(<<(<<"a">>), <<(<<(<<"b">>), 3>>)>> >>),
    (<<(<<"b">>), <<(<<(<<"a">>), 2>>), (<<(<<".">>), 1>>)>> >>)>>

\* C14: one train call on a fresh model gives every (context, token) the
\* number of windows of the non-blank lines that hold them; blank lines and
\* lines of fewer than order + 1 tokens add nothing, no window spans two
\* lines, and "a b a b a b." with order 1 gives a -> {b: 3},
\* b -> {a: 2, ".": 1}.
C14_TrainCounts ==
  [][(trains = 0 /\ trains' = 1) =>
       \A corpus \in TrainInputs :
         model' = TrainCorpus(<<>>, corpus, order.val, tokenType) =>
           /\ Triples(model') = CountedTriples(corpus, order.val, tokenType)
           /\ (corpus = JString(Abab) /\ order.val = 1 /\ tokenType = JString(WordType))
                => model' = AbabTable]_vars

\* the table of "a b a b a b." with order 1 after one call
C14_Witness == trains = 1 /\ model = AbabTable

(***************************************************************************)
(* The claims about the extension loop.                                    *)
(***************************************************************************)
\* the tokens a step has appended
Appended == SubSeq(tokens', Len(tokens) + 1, Len(tokens'))

\* a step of the loop that sampled a token
Sampled == pc = "loop" /\ samples' = samples + 1

\* C15: after a token is appended, generation continues if it is not a stop
\* token; if it is one, generation continues with nothing else appended
\* when u >= stopProbability, appends exactly one separator " " and
\* continues when u < stopProbability, multipleSentenceProbability > 0 and
\* v < multipleSentenceProbability, and stops with SENTENCE-END otherwise.
\* Stop tokens of the seed or of the random start never stop the call.
C15_StopTokenHandling ==
  /\ [][Sampled =>
          LET t == tokens'[Len(tokens) + 1]
              continues == pc' = "loop" /\ Appended = <<t>>
              separates == pc' = "loop" /\ Appended = <<t, <<" ">> >>
              stops == pc' = "format" /\ outcome' = "SENTENCE-END" /\ Appended = <<t>>
              below == \E u \in Draws : Less(u, stopProbability)
          IN  /\ Len(tokens') > Len(tokens)
              /\ t \notin stopTokens => continues
              /\ t \in stopTokens =>
                   \/ continues /\ \E u \in Draws : ~Less(u, stopProbability)
                   \/ /\ separates
                      /\ below
                      /\ Less(<<0, 1>>, multipleSentenceProbability)
                      /\ \E v \in Draws : Less(v, multipleSentenceProbability)
                   \/ /\ stops
                      /\ below
                      /\ \/ ~Less(<<0, 1>>, multipleSentenceProbability)
                         \/ \E v \in Draws : ~Less(v, multipleSentenceProbability)]_vars
  /\ [][pc = "init" => pc' \in {"loop", "threw"}]_vars
  /\ [](outcome = "SENTENCE-END" =>
          samples >= 1 /\ tokens[Len(tokens)] \in stopTokens)

\* a call that started from a stop token, went on, and stopped at a later
\* stop token
C15_Witness ==
  /\ pc = "format"
  /\ outcome = "SENTENCE-END"
  /\ stopProbability = <<1, 2>>
  /\ tokens[1] \in stopTokens
  /\ Len(tokens) >= 3

\* the lookup of the next iteration misses
DeadEndNext == pc = "loop" /\ currentLength < maxLength /\ ~MapHas(model, NextContext)

\* C16: when the last order tokens form a context that is not in the table
\* (also for a seed never seen in training), generate raises no error: it
\* stops extending, appends nothing more and returns the formatted text of
\* the tokens produced so far.
C16_DeadEndReturns ==
  /\ [][DeadEndNext =>
          pc' = "format" /\ outcome' = "DEAD-END" /\ tokens' = tokens]_vars
  /\ [][(pc = "format" /\ outcome = "DEAD-END") =>
          /\ pc' = "returned"
          /\ tokens' = tokens
          /\ text' = JString(FormatGeneratedText(Detokenize(tokenType, tokens)))
          /\ (tokenType = JString(WordType) /\ tokens = <<(<<"a">>), (<<".">>)>>)
               => text' = JString(<<"A", ".">>)]_vars

\* the seed "!" was never seen by the model trained on "a b a b a b.": the
\* call has returned it, formatted, without sampling
C16_Witness ==
  /\ AbabModel
  /\ pc = "returned"
  /\ outcome = "DEAD-END"
  /\ seed = JString(<<"!">>)
  /\ samples = 0
  /\ text = JString(<<"!">>)

\* a call without a seed has taken its random start and sampled nothing yet
RandomStarted ==
  pc = "loop" /\ seed.type = "null" /\ samples = 0 /\ iterations = 0

\* C17: with no seed and a non-empty table, in word mode and in character
\* mode (also when a context holds the space character), the initial tokens
\* of generate are exactly the order tokens of one context of the table, so
\* that the first lookup of the loop finds that context.
C17_RandomStartIsContext ==
  RandomStarted =>
    /\ Len(tokens) = order.val
    /\ MapHas(model, Join(tokens, <<" ">>))
    /\ MapHas(model, NextContext)

\* the order tokens at the end of the token sequence, joined as a key
PrecedingContext ==
  Join(SubSeq(tokens, IF Len(tokens) > order.val THEN Len(tokens) - order.val + 1 ELSE 1,
              Len(tokens)), <<" ">>)

\* C18: during a generate call the token sequence only grows by appending
\* (the seed or random-start tokens stay a prefix), every token appended
\* other than the separator " " is a successor recorded with a count >= 1
\* under the context of the order tokens before it, and the call never
\* changes the table or the configuration of the model.
C18_GenerateFrame ==
  /\ [][(pc = "loop" \/ pc = "format") =>
          /\ Len(tokens') >= Len(tokens)
          /\ SubSeq(tokens', 1, Len(tokens)) = tokens]_vars
  /\ [][Sampled =>
          /\ \E triple \in Triples(model) :
               /\ triple[1] = PrecedingContext
               /\ triple[2] = tokens'[Len(tokens) + 1]
               /\ triple[3] >= 1
          /\ \A i \in (Len(tokens) + 2)..Len(tokens') : tokens'[i] = <<" ">>]_vars
  /\ [][(pc = "loop" /\ ~(samples' = samples + 1)) => tokens' = tokens]_vars
  /\ [][(pc # "idle" \/ pc' # "idle") =>
          UNCHANGED <<order, tokenType, stopTokens, model>>]_vars

\* a call on a trained model that has sampled twice at temperature -1
C18_Witness ==
  /\ pc = "format"
  /\ trains >= 1
  /\ samples >= 2
  /\ temperature = <<-1, 1>>
  /\ Len(tokens) >= 3

\* the last token is the sentence separator that a step of this call pushed
SeparatorLast ==
  /\ samples >= 1
  /\ Len(tokens) >= 2
  /\ tokens[Len(tokens)] = <<" ">>

=============================================================================
